---- MODULE Spec2Model ----
(***************************************************************************)
(* PO generator (src/app.py): build_output_rows_from_uploads followed by   *)
(* write_to_template_from_path, as the "Generate PO" run composes them.    *)
(*                                                                         *)
(* Text is a sequence of one-character strings, so that strip, upper,      *)
(* zfill, replace and the branch-code pattern are computed character by    *)
(* character.  A Python int (unbounded) is held as its canonical decimal   *)
(* digits: PO numbers have ten or more digits.                             *)
(***************************************************************************)
EXTENDS Integers, Sequences, FiniteSets, TLC

VARIABLES
    inputs,          \* list of <<platform, branch_code, file rows>>
    key_table,       \* rows of key.xlsx from row 2 on: [b, c] cell values
    po_date,         \* [year, month, day]
    deliv_plus_days,
    template,        \* the template workbook as loaded: [cell, height] of row 2
    pc,              \* "start", "build", "write", "done", "error"
    err,             \* "none" or the raised ValueError: [kind, arg]
    key_map,         \* build_output_rows_from_uploads: key_map
    out,             \* build_output_rows_from_uploads: out
    k,               \* number of inputs consumed by the outer loop
    po_str, deliv_str,
    cells,           \* ws values: row -> [A .. L]
    style,           \* ws cell styles: row -> column -> style record
    height,          \* ws.row_dimensions[r].height
    po_by_branch, count_by_num,
    i,               \* number of rows consumed by enumerate(rows)
    po_no,           \* the loop's po_no, <<>> before the first row
    result           \* "none", or the saved workbook returned as bytes

vars == <<inputs, key_table, po_date, deliv_plus_days, template, pc, err,
          key_map, out, k, po_str, deliv_str, cells, style, height,
          po_by_branch, count_by_num, i, po_no, result>>

(***************************************************************************)
(* Text primitives                                                         *)
(***************************************************************************)
Digits == <<"0", "1", "2", "3", "4", "5", "6", "7", "8", "9">>

IsDigit(c) == \E j \in 1..10 : Digits[j] = c

\* the letters that occur in the branch codes and platform tags drawn below
LowerCase == <<"a", "b", "c", "e", "l", "p", "s", "t", "x">>

UpperCase == <<"A", "B", "C", "E", "L", "P", "S", "T", "X">>

Whitespace == {" ", "\t", "\n"}

\* str.upper(), one character
UpperChar(c) ==
    IF \E j \in 1..Len(LowerCase) : LowerCase[j] = c
    THEN UpperCase[CHOOSE j \in 1..Len(LowerCase) : LowerCase[j] = c]
    ELSE c

\* str.upper()
Upper(s) == [j \in 1..Len(s) |-> UpperChar(s[j])]

RECURSIVE LStrip(_)
LStrip(s) ==
    IF s # <<>> /\ Head(s) \in Whitespace THEN LStrip(Tail(s)) ELSE s

RECURSIVE RStrip(_)
RStrip(s) ==
    IF s # <<>> /\ s[Len(s)] \in Whitespace
    THEN RStrip(SubSeq(s, 1, Len(s) - 1))
    ELSE s

\* str.strip()
Strip(s) == RStrip(LStrip(s))

\* str(n) for an int n >= 0
RECURSIVE Str(_)
Str(n) == IF n < 10 THEN <<Digits[n + 1]>> ELSE Str(n \div 10) \o <<Digits[(n % 10) + 1]>>

\* str.zfill(width)
RECURSIVE Zfill(_, _)
Zfill(s, width) == IF Len(s) >= width THEN s ELSE Zfill(<<"0">> \o s, width)

\* str.replace(ch, "")
RemoveChar(s, ch) == SelectSeq(s, LAMBDA c : c # ch)

StartsWith(s, p) == Len(s) >= Len(p) /\ SubSeq(s, 1, Len(p)) = p

DigitVal(c) == (CHOOSE j \in 1..10 : Digits[j] = c) - 1

\* int(text) for a text of decimal digits.  The value is held as its digit
\* values, most significant first, without leading zeros (0 is <<0>>).
RECURSIVE IntOf(_)
IntOf(s) ==
    IF Len(s) > 1 /\ Head(s) = "0"
    THEN IntOf(Tail(s))
    ELSE [j \in 1..Len(s) |-> DigitVal(s[j])]

\* the display of an int cell under number format "0"
Format0(v) == [j \in 1..Len(v) |-> Digits[v[j] + 1]]

(***************************************************************************)
(* Core logic                                                              *)
(***************************************************************************)
thai_be_to_yy(date_greg) ==
    LET be_year == date_greg.year + 543
    IN  Zfill(Str(be_year % 100), 2)

\* strftime("%m%d")
StrfMonthDay(d) == Zfill(Str(d.month), 2) \o Zfill(Str(d.day), 2)

\* strftime("%Y/%m/%d")
force_yyyy_mm_dd(d) ==
    Str(d.year) \o <<"/">> \o Zfill(Str(d.month), 2) \o <<"/">> \o Zfill(Str(d.day), 2)

IsLeap(y) == (y % 4 = 0 /\ y % 100 # 0) \/ y % 400 = 0

DaysInMonth(y, m) ==
    IF m = 2 THEN (IF IsLeap(y) THEN 29 ELSE 28)
    ELSE IF m \in {4, 6, 9, 11} THEN 30 ELSE 31

\* date + timedelta(days = n), n >= 0
RECURSIVE AddDays(_, _)
AddDays(d, n) ==
    IF n = 0 THEN d
    ELSE IF d.day < DaysInMonth(d.year, d.month)
         THEN AddDays([d EXCEPT !.day = d.day + 1], n - 1)
         ELSE IF d.month < 12
              THEN AddDays([year |-> d.year, month |-> d.month + 1, day |-> 1], n - 1)
              ELSE AddDays([year |-> d.year + 1, month |-> 1, day |-> 1], n - 1)

Prefixes == << <<"S", "P", "X">>, <<"T", "T">>, <<"L", "E", "X">> >>

NoMatch == [matched |-> FALSE, group1 |-> <<>>, group2 |-> <<>>]

\* re.match(r"^(SPX|TT|LEX)(\d+)$", text): the match and its groups
ReMatch(text) ==
    IF \E j \in 1..Len(Prefixes) :
           /\ StartsWith(text, Prefixes[j])
           /\ Len(text) > Len(Prefixes[j])
           /\ \A q \in (Len(Prefixes[j]) + 1)..Len(text) : IsDigit(text[q])
    THEN LET j == CHOOSE j \in 1..Len(Prefixes) : StartsWith(text, Prefixes[j])
         IN  [matched |-> TRUE,
              group1  |-> Prefixes[j],
              group2  |-> SubSeq(text, Len(Prefixes[j]) + 1, Len(text))]
    ELSE NoMatch

\* the pattern with \d* for \d+: a prefix alone matches
BranchMatchNoDigits(branch_code) ==
    LET text == Upper(Strip(branch_code))
    IN  IF \E j \in 1..Len(Prefixes) :
               /\ StartsWith(text, Prefixes[j])
               /\ \A q \in (Len(Prefixes[j]) + 1)..Len(text) : IsDigit(text[q])
        THEN LET j == CHOOSE j \in 1..Len(Prefixes) : StartsWith(text, Prefixes[j])
             IN  [matched |-> TRUE,
                  group1  |-> Prefixes[j],
                  group2  |-> SubSeq(text, Len(Prefixes[j]) + 1, Len(text))]
        ELSE NoMatch

\* m = re.match(..., branch_code.strip().upper())
BranchMatch(branch_code) == ReMatch(Upper(Strip(branch_code)))

\* without the fallback to "0"
NumNoZeroEmpty(num) == RemoveChar(num, "0")

\* num.replace("0", "") or "0"
NumNoZero(num) ==
    IF RemoveChar(num, "0") = <<>> THEN <<"0">> ELSE RemoveChar(num, "0")

\* build_po_base on a branch code the pattern accepts: (base, num_no_zero)
build_po_base(branch_code, date) ==
    LET m           == BranchMatch(branch_code)
        num         == m.group2
        yy          == thai_be_to_yy(date)
        mmdd        == StrfMonthDay(date)
        num_no_zero == NumNoZero(num)
    IN  [base |-> yy \o mmdd \o num_no_zero, num_no_zero |-> num_no_zero]

\* count_by_num.get(num_no_zero, 1): the count is never advanced
NextCountStuck(counts, num_no_zero) ==
    IF num_no_zero \in DOMAIN counts THEN counts[num_no_zero] ELSE 1

\* one counter for all digit keys
NextCountShared(counts, num_no_zero) ==
    IF DOMAIN counts = {} THEN 1
    ELSE (CHOOSE m \in {counts[x] : x \in DOMAIN counts} :
             \A y \in DOMAIN counts : counts[y] <= m) + 1

\* count_by_num.get(num_no_zero, 0) + 1
NextCount(counts, num_no_zero) ==
    (IF num_no_zero \in DOMAIN counts THEN counts[num_no_zero] ELSE 0) + 1

\* without zfill
SuffixUnpadded(count) == Str(count)

\* str(count_by_num[num_no_zero]).zfill(2)
Suffix(count) == Zfill(Str(count), 2)

\* no memo lookup: every row allocates
MemoizedNever(memo, branch_code) == FALSE

\* rr.branch_code in po_by_branch
Memoized(memo, branch_code) == branch_code \in DOMAIN memo

(***************************************************************************)
(* Spreadsheet cell values: None, a number, or text                        *)
(***************************************************************************)
None == [t |-> "none", n |-> 0, s |-> <<>>]

Num(x) == [t |-> "num", n |-> x, s |-> <<>>]

Txt(x) == [t |-> "str", n |-> 0, s |-> x]

\* str(value) of a cell that is not None
StrOf(v) == IF v.t = "num" THEN Str(v.n) ELSE v.s

\* "not value": None, "" and 0 are false
Falsy(v) == v.t = "none" \/ (v.t = "str" /\ v.s = <<>>) \/ (v.t = "num" /\ v.n = 0)

RECURSIVE ParseNat(_)
ParseNat(s) ==
    IF s = <<>> THEN 0 ELSE ParseNat(SubSeq(s, 1, Len(s) - 1)) * 10 + DigitVal(s[Len(s)])

\* to_float.  Numbers are whole and non-negative here; a text is either plain
\* digits with thousands separators or no number at all.
to_float(x) ==
    IF x.t = "none" \/ (x.t = "str" /\ x.s = <<>>) THEN 0
    ELSE IF x.t = "num" THEN x.n
    ELSE LET s == RemoveChar(Strip(x.s), ",")
         IN  IF s # <<>> /\ \A j \in 1..Len(s) : IsDigit(s[j]) THEN ParseNat(s) ELSE 0

EmptyMap == <<>>

\* d[key] = value
Put(d, key, value) == [x \in DOMAIN d \cup {key} |-> IF x = key THEN value ELSE d[x]]

\* load_key_map_from_bytes: rows from row 2 on, column B -> column C
RECURSIVE load_key_map(_)
load_key_map(rows) ==
    IF rows = <<>> THEN EmptyMap
    ELSE LET before == load_key_map(SubSeq(rows, 1, Len(rows) - 1))
             last   == rows[Len(rows)]
         IN  IF last.b.t = "none" \/ last.c.t = "none"
             THEN before
             ELSE Put(before, Strip(StrOf(last.b)), Strip(StrOf(last.c)))

\* The parsers' loop over the data rows of a file, the three cells of a row
\* being the platform's description, price and quantity columns.
RECURSIVE ParseRows(_, _)
ParseRows(file, lex) ==
    IF file = <<>> THEN <<>>
    ELSE LET row == Head(file)
         IN  IF Falsy(row.desc)
             THEN ParseRows(Tail(file), lex)
             ELSE << [description |-> Strip(StrOf(row.desc)),
                      price       |-> to_float(row.price),
                      qty         |-> IF lex THEN 1 ELSE to_float(row.qty)] >>
                  \o ParseRows(Tail(file), lex)

parse_tt_bytes(file) == ParseRows(file, FALSE)

parse_spx_bytes(file) == ParseRows(file, FALSE)

parse_lex_bytes(file) == ParseRows(file, TRUE)

P_SPX == <<"S", "P", "X">>

P_LEX == <<"L", "E", "X">>

P_TT == <<"T", "T">>

KnownPlatform(platform) == platform \in {P_SPX, P_LEX, P_TT}

ParseFor(platform, file) ==
    IF platform = P_SPX THEN parse_spx_bytes(file)
    ELSE IF platform = P_LEX THEN parse_lex_bytes(file)
    ELSE parse_tt_bytes(file)

\* key_map.get(desc, desc)
LookupOrDesc(map, desc) == IF desc \in DOMAIN map THEN map[desc] ELSE desc

\* key_map.get(desc, "")
Lookup(map, desc) == IF desc \in DOMAIN map THEN map[desc] ELSE <<>>

\* the output rows one input appends: the inner loop of
\* build_output_rows_from_uploads
RowsOf(platform, branch_code, lines, map) ==
    [j \in 1..Len(lines) |->
        [branch_code |-> branch_code,
         article     |-> Lookup(map, lines[j].description),
         description |-> lines[j].description,
         price_unit  |-> lines[j].price,
         qty         |-> IF platform = P_LEX THEN 1 ELSE lines[j].qty]]

(***************************************************************************)
(* Worksheet                                                               *)
(***************************************************************************)
NumCols == 18

DefaultStyle ==
    [number_format |-> "General", font |-> "default", border |-> "default",
     fill |-> "default", alignment |-> "default", protection |-> "default"]

\* the style and height of a row the worksheet does not hold yet
RowStyle(st, r) == IF r \in DOMAIN st THEN st[r] ELSE [c \in 1..NumCols |-> DefaultStyle]

RowHeight(ht, r) == IF r \in DOMAIN ht THEN ht[r] ELSE "default"

CopyNeeded(r) == r # 2

\* range(1, max_col): the last column is left out
copy_row_style_short(st, src_row, dst_row, max_col) ==
    [c \in 1..NumCols |->
        IF c < max_col THEN RowStyle(st, src_row)[c] ELSE RowStyle(st, dst_row)[c]]

\* copy_row_style: the cell styles of dst_row after the copy
copy_row_style(st, src_row, dst_row, max_col) ==
    [c \in 1..NumCols |->
        IF c <= max_col THEN RowStyle(st, src_row)[c] ELSE RowStyle(st, dst_row)[c]]

\* i * 10
LineNoFromZero(pos) == pos * 10

\* the line-number field of the row at 0-based position pos
LineNo(pos) == (pos + 1) * 10

\* the values written to columns A..L of one row
RowValues(rr, pos, po, postr, delivstr) ==
    [A |-> rr.branch_code,
     B |-> IntOf(po),
     C |-> LineNo(pos),
     D |-> rr.article,
     E |-> rr.description,
     F |-> postr,
     G |-> delivstr,
     H |-> "None",
     I |-> rr.price_unit,
     J |-> <<"E", "A">>,
     K |-> rr.qty,
     L |-> rr.price_unit * rr.qty]

(***************************************************************************)
(* Inputs of a run                                                         *)
(***************************************************************************)
MaxInputs == 3

NumSameKey == 101

SPX903 == <<"S", "P", "X", "9", "0", "3">>

LEX903 == <<"L", "E", "X", "9", "0", "3">>

TT9030 == <<"T", "T", "9", "0", "3", "0">>

TT905 == <<"T", "T", "9", "0", "5">>

SPX000 == <<"S", "P", "X", "0", "0", "0">>

spx903_raw == <<" ", "s", "p", "x", "9", "0", "3", " ">>

ABC123 == <<"A", "B", "C", "1", "2", "3">>

ItemA == Txt(<<"A">>)

FileEmpty == << [desc |-> None, price |-> Num(5), qty |-> Num(1)] >>

FileOne == << [desc |-> ItemA, price |-> Num(10), qty |-> Num(2)] >>

FileTwo ==
    << [desc |-> Txt(<<" ", "A">>), price |-> Txt(<<"1", ",", "0", "0", "0">>), qty |-> Num(2)],
       [desc |-> Txt(<<>>), price |-> Num(1), qty |-> Num(1)],
       [desc |-> Txt(<<"C">>), price |-> None, qty |-> Txt(<<"x">>)] >>

In(platform, branch_code, file) ==
    [platform |-> platform, branch_code |-> branch_code, file |-> file]

InputSet ==
    { In(P_SPX, SPX903, FileTwo), In(P_SPX, TT9030, FileOne), In(P_SPX, TT905, FileOne),
      In(P_SPX, SPX000, FileOne), In(P_LEX, LEX903, FileTwo),
      In(<<" ", "t", "t">>, spx903_raw, FileOne),
      In(P_LEX, LEX903, FileEmpty),
      In(P_LEX, ABC123, FileEmpty), In(P_TT, ABC123, FileOne), In(P_SPX, P_SPX, FileTwo),
      In(<<"X", "X">>, SPX903, FileOne) }

RECURSIVE SeqsUpTo(_, _)
SeqsUpTo(S, n) ==
    IF n = 0 THEN {<<>>}
    ELSE LET shorter == SeqsUpTo(S, n - 1)
         IN  shorter \cup {Append(q, x) : q \in {z \in shorter : Len(z) = n - 1}, x \in S}

\* NumSameKey branch codes with the digit key "1" (SPX1, SPX10, SPX100, ...),
\* followed by SPX11
ManyInputs ==
    [j \in 1..(NumSameKey + 1) |->
        In(P_SPX,
           IF j <= NumSameKey
           THEN <<"S", "P", "X", "1">> \o [q \in 1..(j - 1) |-> "0"]
           ELSE <<"S", "P", "X", "1", "1">>,
           FileOne)]

Date(y, m, d) == [year |-> y, month |-> m, day |-> d]

KeyTableA ==
    << [b |-> Txt(<<"A">>), c |-> Txt(<<"A", "R", "T", "1">>)],
       [b |-> Txt(<<"B">>), c |-> None],
       [b |-> None, c |-> Txt(<<"X">>)] >>

KeyTableB ==
    << [b |-> Txt(<<" ", "A", " ">>), c |-> Txt(<<" ", "1">>)],
       [b |-> Txt(<<"C">>), c |-> Num(20)],
       [b |-> Txt(<<"A">>), c |-> Txt(<<"3">>)] >>

TemplateOf(fmtB, h) ==
    [height |-> h,
     cell   |-> [c \in 1..NumCols |->
                    [number_format |-> IF c = 2 THEN fmtB
                                       ELSE IF c \in {9, 11, 12} THEN "0.00" ELSE "General",
                     font       |-> IF c <= 12 THEN "Arial" ELSE "Calibri",
                     border     |-> IF c % 3 = 0 THEN "thin" ELSE "none",
                     fill       |-> IF c % 2 = 0 THEN "yellow" ELSE "none",
                     alignment  |-> IF c = 1 THEN "left" ELSE "center",
                     protection |-> "locked"]]]

Run(date, days, table, tmpl) ==
    [po_date |-> date, deliv_plus_days |-> days, key_table |-> table, template |-> tmpl]

RunSet ==
    { Run(Date(2026, 1, 15), 7, KeyTableA, TemplateOf("General", "h20")),
      Run(Date(2057, 12, 5), 0, KeyTableB, TemplateOf("0", "h15")),
      Run(Date(2065, 10, 31), 7, KeyTableA, TemplateOf("0.00", "h20")),
      Run(Date(2066, 12, 28), 7, KeyTableB, TemplateOf("General", "h15")) }

NoError == [kind |-> "none", arg |-> <<>>]

NoResult == [saved |-> FALSE, cells |-> <<>>, style |-> <<>>, height |-> <<>>]

Init ==
    /\ \E run \in RunSet :
          /\ po_date = run.po_date
          /\ deliv_plus_days = run.deliv_plus_days
          /\ key_table = run.key_table
          /\ template = run.template
          /\ \/ inputs \in SeqsUpTo(InputSet, MaxInputs)
             \/ /\ run.po_date.year = 2026
                /\ inputs = ManyInputs
    /\ pc = "start"
    /\ err = NoError
    /\ key_map = EmptyMap
    /\ out = <<>>
    /\ k = 0
    /\ po_str = <<>>
    /\ deliv_str = <<>>
    /\ cells = <<>>
    /\ style = <<>>
    /\ height = <<>>
    /\ po_by_branch = EmptyMap
    /\ count_by_num = EmptyMap
    /\ i = 0
    /\ po_no = <<>>
    /\ result = NoResult

(***************************************************************************)
(* build_output_rows_from_uploads                                          *)
(***************************************************************************)
LoadKeyMap ==
    /\ pc = "start"
    /\ key_map' = load_key_map(key_table)
    /\ out' = <<>>
    /\ k' = 0
    /\ pc' = "build"
    /\ UNCHANGED <<inputs, key_table, po_date, deliv_plus_days, template, err, po_str,
                   deliv_str, cells, style, height, po_by_branch, count_by_num, i,
                   po_no, result>>

\* one pass of "for platform, branch_code, file_bytes in inputs"
BuildInput ==
    /\ pc = "build"
    /\ k < Len(inputs)
    /\ LET platform    == Strip(Upper(inputs[k + 1].platform))
           branch_code == Upper(Strip(inputs[k + 1].branch_code))
       IN  /\ KnownPlatform(platform)
           /\ out' = out \o RowsOf(platform, branch_code,
                                   ParseFor(platform, inputs[k + 1].file), key_map)
    /\ k' = k + 1
    /\ UNCHANGED <<inputs, key_table, po_date, deliv_plus_days, template, pc, err,
                   key_map, po_str, deliv_str, cells, style, height, po_by_branch,
                   count_by_num, i, po_no, result>>

\* raise ValueError(f"Unknown platform: {platform}")
BuildUnknownPlatform ==
    /\ pc = "build"
    /\ k < Len(inputs)
    /\ LET platform == Strip(Upper(inputs[k + 1].platform))
       IN  /\ ~KnownPlatform(platform)
           /\ err' = [kind |-> "UnknownPlatform", arg |-> platform]
    /\ pc' = "error"
    /\ UNCHANGED <<inputs, key_table, po_date, deliv_plus_days, template, key_map, out,
                   k, po_str, deliv_str, cells, style, height, po_by_branch,
                   count_by_num, i, po_no, result>>

(***************************************************************************)
(* write_to_template_from_path                                             *)
(***************************************************************************)
\* "return out", then the lines of write_to_template_from_path before its loop.
\* The caller always passes a po_date, so "po_date or dt.date.today()" is po_date.
OpenTemplate ==
    /\ pc = "build"
    /\ k = Len(inputs)
    /\ po_str' = force_yyyy_mm_dd(po_date)
    /\ deliv_str' = force_yyyy_mm_dd(AddDays(po_date, deliv_plus_days))
    /\ cells' = <<>>
    /\ style' = [r \in {2} |-> template.cell]
    /\ height' = [r \in {2} |-> template.height]
    /\ po_by_branch' = EmptyMap
    /\ count_by_num' = EmptyMap
    /\ i' = 0
    /\ pc' = "write"
    /\ UNCHANGED <<inputs, key_table, po_date, deliv_plus_days, template, err, key_map,
                   out, k, po_no, result>>

\* the worksheet styles once the loop body has copied row 2 onto row r
StyleAfterCopy(r) ==
    IF CopyNeeded(r) THEN Put(style, r, copy_row_style(style, 2, r, NumCols)) ELSE style

HeightAfterCopy(r) ==
    IF CopyNeeded(r) THEN Put(height, r, RowHeight(height, 2)) ELSE height

\* lines 255-269: the row's values, and number format "0" on its column B
WriteCells(r, rr, po) ==
    /\ cells' = Put(cells, r, RowValues(rr, i, po, po_str, deliv_str))
    /\ style' = Put(StyleAfterCopy(r), r,
                    [StyleAfterCopy(r)[r] EXCEPT ![2].number_format = "0"])
    /\ height' = HeightAfterCopy(r)
    /\ po_no' = po
    /\ i' = i + 1

\* a row whose branch code has its PO number already
WriteRowMemo ==
    /\ pc = "write"
    /\ i < Len(out)
    /\ Memoized(po_by_branch, out[i + 1].branch_code)
    /\ WriteCells(2 + i, out[i + 1], po_by_branch[out[i + 1].branch_code])
    /\ UNCHANGED <<inputs, key_table, po_date, deliv_plus_days, template, pc, err,
                   key_map, out, k, po_str, deliv_str, po_by_branch, count_by_num,
                   result>>

\* a row whose branch code is new and matches the pattern
WriteRowAlloc ==
    /\ pc = "write"
    /\ i < Len(out)
    /\ ~Memoized(po_by_branch, out[i + 1].branch_code)
    /\ BranchMatch(out[i + 1].branch_code).matched
    /\ LET rr    == out[i + 1]
           built == build_po_base(rr.branch_code, po_date)
           count == NextCount(count_by_num, built.num_no_zero)
           po    == built.base \o Suffix(count)
       IN  /\ count_by_num' = Put(count_by_num, built.num_no_zero, count)
           /\ po_by_branch' = Put(po_by_branch, rr.branch_code, po)
           /\ WriteCells(2 + i, rr, po)
    /\ UNCHANGED <<inputs, key_table, po_date, deliv_plus_days, template, pc, err,
                   key_map, out, k, po_str, deliv_str, result>>

\* a row whose branch code is new and does not match: build_po_base raises,
\* after the row's style copy
WriteRowInvalid ==
    /\ pc = "write"
    /\ i < Len(out)
    /\ ~Memoized(po_by_branch, out[i + 1].branch_code)
    /\ ~BranchMatch(out[i + 1].branch_code).matched
    /\ style' = StyleAfterCopy(2 + i)
    /\ height' = HeightAfterCopy(2 + i)
    /\ err' = [kind |-> "InvalidBranchCode", arg |-> out[i + 1].branch_code]
    /\ pc' = "error"
    /\ UNCHANGED <<inputs, key_table, po_date, deliv_plus_days, template, key_map, out,
                   k, po_str, deliv_str, cells, po_by_branch, count_by_num, i, po_no,
                   result>>

\* wb.save(out); return out.getvalue()
Save ==
    /\ pc = "write"
    /\ i = Len(out)
    /\ result' = [saved |-> TRUE, cells |-> cells, style |-> style, height |-> height]
    /\ pc' = "done"
    /\ UNCHANGED <<inputs, key_table, po_date, deliv_plus_days, template, err, key_map,
                   out, k, po_str, deliv_str, cells, style, height, po_by_branch,
                   count_by_num, i, po_no>>

Next ==
    \/ LoadKeyMap
    \/ BuildInput
    \/ BuildUnknownPlatform
    \/ OpenTemplate
    \/ WriteRowMemo
    \/ WriteRowAlloc
    \/ WriteRowInvalid
    \/ Save

Spec == Init /\ [][Next]_vars

(***************************************************************************)
(* Vocabulary of the properties, stated apart from the operators above     *)
(***************************************************************************)
\* the branch code, trimmed and uppercased, is SPX, TT or LEX and then one or
\* more digits
ValidShape(code) ==
    LET t == Upper(Strip(code))
    IN  \E p \in {P_SPX, P_TT, P_LEX} :
           /\ Len(t) >= Len(p) + 1
           /\ \A q \in 1..Len(p) : t[q] = p[q]
           /\ \A q \in (Len(p) + 1)..Len(t) :
                 t[q] \in {"0", "1", "2", "3", "4", "5", "6", "7", "8", "9"}

\* the digit-stripped suffix of a branch code
KeyOf(code) ==
    LET t      == Upper(Strip(code))
        plen   == IF t # <<>> /\ t[1] = "T" THEN 2 ELSE 3
        nozero == SelectSeq(SubSeq(t, plen + 1, Len(t)), LAMBDA c : c # "0")
    IN  IF nozero = <<>> THEN <<"0">> ELSE nozero

TwoDigits(n) == <<Digits[((n \div 10) % 10) + 1], Digits[(n % 10) + 1]>>

\* yy + mm + dd of a date
DatePart(d) == TwoDigits(d.year + 543) \o TwoDigits(d.month) \o TwoDigits(d.day)

\* k zero-padded to at least two digits
PadTwo(n) == IF n < 100 THEN TwoDigits(n) ELSE Str(n)

\* the branch codes of the rows the loop has written
Seen == {out[j].branch_code : j \in 1..i}

\* the position of code's first row among the rows written
FirstIndex(code) ==
    LET at == {j \in 1..i : out[j].branch_code = code}
    IN  CHOOSE j \in at : \A q \in at : j <= q

\* the distinct branch codes of rows, in first-seen order
RECURSIVE FirstSeen(_)
FirstSeen(rows) ==
    IF rows = <<>> THEN <<>>
    ELSE LET before == FirstSeen(SubSeq(rows, 1, Len(rows) - 1))
             code   == rows[Len(rows)].branch_code
         IN  IF \E q \in 1..Len(before) : before[q] = code
             THEN before
             ELSE Append(before, code)

Order == FirstSeen(SubSeq(out, 1, i))

\* the digit keys of a sequence of branch codes
RECURSIVE KeySeq(_)
KeySeq(codes) ==
    IF codes = <<>> THEN <<>>
    ELSE Append(KeySeq(SubSeq(codes, 1, Len(codes) - 1)), KeyOf(codes[Len(codes)]))

\* RankSeq(keys)[p] = k: the p-th key is the k-th occurrence of its value
RECURSIVE RankSeq(_)
RankSeq(keys) ==
    IF keys = <<>> THEN <<>>
    ELSE Append(RankSeq(SubSeq(keys, 1, Len(keys) - 1)),
                Cardinality({q \in 1..Len(keys) : keys[q] = keys[Len(keys)]}))

Writing == pc \in {"write", "done"} \/ (pc = "error" /\ err.kind = "InvalidBranchCode")

\* the lines a file parses to: its rows with a description
LineCount(file) ==
    Cardinality({j \in 1..Len(file) :
        ~(\/ file[j].desc.t = "none"
          \/ (file[j].desc.t = "str" /\ file[j].desc.s = <<>>)
          \/ (file[j].desc.t = "num" /\ file[j].desc.n = 0))})

RECURSIVE TotalLines(_)
TotalLines(ins) ==
    IF ins = <<>> THEN 0 ELSE LineCount(Head(ins).file) + TotalLines(Tail(ins))

\* the description and branch code of every parsed line, in upload order and
\* then in file order
RECURSIVE Flat(_)
Flat(ins) ==
    IF ins = <<>> THEN <<>>
    ELSE LET inp  == Head(ins)
             kept == SelectSeq(inp.file, LAMBDA row : ~Falsy(row.desc))
         IN  [j \in 1..Len(kept) |->
                 [description |-> Strip(StrOf(kept[j].desc)),
                  branch_code |-> Upper(Strip(inp.branch_code))]]
             \o Flat(Tail(ins))

(***************************************************************************)
(* C1                                                                      *)
(***************************************************************************)
C1_Inv ==
    Writing =>
        /\ \A j \in 1..i :
              /\ out[j].branch_code \in DOMAIN po_by_branch
              /\ cells[1 + j].B = IntOf(po_by_branch[out[j].branch_code])
        /\ \A j1, j2 \in 1..i :
              out[j1].branch_code = out[j2].branch_code => cells[1 + j1].B = cells[1 + j2].B

C1_Step ==
    (pc = "write" /\ i' = i + 1) =>
        /\ \A b \in DOMAIN po_by_branch :
              b \in DOMAIN po_by_branch' /\ po_by_branch'[b] = po_by_branch[b]
        /\ out[i + 1].branch_code \in Seen =>
              /\ po_by_branch' = po_by_branch
              /\ count_by_num' = count_by_num
              /\ po_no' = po_by_branch[out[i + 1].branch_code]

\* C1: all written rows with the same branch_code carry the same PO number, the
\* one memoized at the branch_code's first occurrence; a memoized number never
\* changes, and writing a row whose branch_code was seen before leaves both
\* maps as they are, whatever other branch codes were allocated in between.
C1_SameBranchSamePo == []C1_Inv /\ [][C1_Step]_vars

\* a branch code written again after a different branch code was allocated
C1_Witness ==
    /\ pc = "write"
    /\ \E j1, j2, j3 \in 1..i :
          /\ j1 < j2 /\ j2 < j3
          /\ out[j1].branch_code = out[j3].branch_code
          /\ out[j1].branch_code # out[j2].branch_code

(***************************************************************************)
(* C2                                                                      *)
(***************************************************************************)
\* C2 as stated: any two distinct branch codes held in the branch->PO map have
\* different PO numbers, however many were allocated under each digit key.
C2_AllDistinct ==
    \A b1, b2 \in DOMAIN po_by_branch : b1 # b2 => po_by_branch[b1] # po_by_branch[b2]

\* C2 (amended): two distinct branch codes have different PO numbers when they
\* share a digit key, or when each is among the first 99 branch codes of its
\* digit key.
C2_DistinctUpTo99 ==
    Writing =>
        LET order == Order
            key   == KeySeq(order)
            rank  == RankSeq(key)
        IN  /\ DOMAIN po_by_branch = {order[p] : p \in 1..Len(order)}
            /\ \A p1, p2 \in 1..Len(order) :
                  (/\ p1 # p2
                   /\ \/ key[p1] = key[p2]
                      \/ (rank[p1] <= 99 /\ rank[p2] <= 99))
                  => po_by_branch[order[p1]] # po_by_branch[order[p2]]

\* branch codes under equal and under different digit keys are allocated
C2_Witness ==
    \E b1, b2, b3 \in DOMAIN po_by_branch :
        /\ b1 # b2 /\ KeyOf(b1) = KeyOf(b2)
        /\ KeyOf(b3) # KeyOf(b1)

(***************************************************************************)
(* C3                                                                      *)
(***************************************************************************)
\* C3 as stated: the k-th distinct branch code of a digit key gets the base
\* yy+mmdd+digits followed by k as exactly two digits.
C3_ExactlyTwoDigits ==
    Writing =>
        LET order == Order
            key   == KeySeq(order)
            rank  == RankSeq(key)
        IN  \A p \in 1..Len(order) :
                LET po   == po_by_branch[order[p]]
                    base == DatePart(po_date) \o key[p]
                IN  /\ Len(po) = Len(base) + 2
                    /\ SubSeq(po, 1, Len(base)) = base
                    /\ ParseNat(SubSeq(po, Len(base) + 1, Len(po))) = rank[p]

\* C3 (amended): the k-th distinct branch code of a digit key gets the base
\* yy+mmdd+digits followed by k zero-padded to at least two digits: exactly two
\* for k <= 99, the plain decimal of k from 100 on.  Branch codes that share a
\* digit key share the base and differ in the suffix only.
C3_SuffixInFirstSeenOrder ==
    Writing =>
        LET order == Order
            key   == KeySeq(order)
            rank  == RankSeq(key)
        IN  /\ DOMAIN po_by_branch = {order[p] : p \in 1..Len(order)}
            /\ \A p \in 1..Len(order) :
                  LET po   == po_by_branch[order[p]]
                      base == DatePart(po_date) \o key[p]
                  IN  /\ po = base \o PadTwo(rank[p])
                      /\ rank[p] <= 99 => Len(po) = Len(base) + 2
            /\ \A p1, p2 \in 1..Len(order) :
                  key[p1] = key[p2] =>
                      LET n == Len(DatePart(po_date)) + Len(key[p1])
                      IN  SubSeq(po_by_branch[order[p1]], 1, n)
                              = SubSeq(po_by_branch[order[p2]], 1, n)

\* three branch codes of the digit key 93, allocated in the order seen
C3_Witness ==
    /\ {SPX903, LEX903, TT9030} \subseteq DOMAIN po_by_branch
    /\ FirstIndex(LEX903) < FirstIndex(TT9030)
    /\ FirstIndex(TT9030) < FirstIndex(SPX903)

(***************************************************************************)
(* C4                                                                      *)
(***************************************************************************)
\* C4: the first PO number allocated for a digit key is yy + mm + dd + digits
\* + "01": yy the last two digits of year + 543, mm and dd two digits each,
\* digits the numeric suffix without its zeros, "0" when nothing is left;
\* SPX903 on 2026-01-15 gets 6901159301.
C4_FirstPoNumber ==
    Writing =>
        LET order == Order
            key   == KeySeq(order)
            rank  == RankSeq(key)
        IN  \A p \in 1..Len(order) :
                rank[p] = 1 =>
                    /\ po_by_branch[order[p]] = DatePart(po_date) \o key[p] \o <<"0", "1">>
                    /\ (po_date = Date(2026, 1, 15) /\ order[p] = SPX903) =>
                          po_by_branch[order[p]]
                              = <<"6", "9", "0", "1", "1", "5", "9", "3", "0", "1">>
                    /\ order[p] = SPX000 =>
                          po_by_branch[order[p]] = DatePart(po_date) \o <<"0", "0", "1">>

\* SPX000 and a branch code given with blanks and in lowercase are both the
\* first of their digit key, in a year whose yy starts with 0
C4_Witness ==
    /\ po_date.year = 2057
    /\ {SPX000, SPX903} \subseteq DOMAIN po_by_branch
    /\ \A b \in DOMAIN po_by_branch : b \in {SPX000, SPX903}
    /\ \E j \in 1..Len(inputs) : inputs[j].branch_code = spx903_raw

(***************************************************************************)
(* C5                                                                      *)
(***************************************************************************)
\* C5 as stated: no run completes successfully when a supplied branch code
\* does not match the pattern, however many lines its input contains.
C5_NoSuccessWithInvalidCode ==
    pc = "done" => \A j \in 1..Len(inputs) : ValidShape(inputs[j].branch_code)

\* C5 (amended): no run completes successfully when a branch code that does not
\* match the pattern is carried by an input with at least one parsed line: the
\* rows before the offending one are written, then the run ends with
\* InvalidBranchCode naming the code and returns no buffer.  (An invalid branch
\* code on an input without parsed lines is never looked at.)
C5_InvalidRowAborts ==
    /\ Writing => \A j \in 1..i : ValidShape(out[j].branch_code)
    /\ result.saved => pc = "done"
    /\ pc = "done" =>
          /\ result.saved
          /\ \A j \in 1..Len(inputs) :
                LineCount(inputs[j].file) > 0 => ValidShape(inputs[j].branch_code)
    /\ (pc = "error" /\ err.kind = "InvalidBranchCode") =>
          /\ ~result.saved
          /\ i < Len(out)
          /\ err.arg = out[i + 1].branch_code
          /\ ~ValidShape(err.arg)

\* the run fails on an invalid branch code after rows with valid ones
C5_Witness ==
    /\ pc = "error"
    /\ err.kind = "InvalidBranchCode"
    /\ i >= 2

(***************************************************************************)
(* C6                                                                      *)
(***************************************************************************)
\* C6: a completed run has written one row per parsed line of all inputs, in
\* upload order and then file order: the row at 0-based position pos is sheet
\* row 2 + pos, carries that line's description and its input's branch code,
\* and has line number (pos + 1) * 10, whatever the branch codes are.
C6_RowCountAndLineNumbers ==
    pc = "done" =>
        LET flat == Flat(inputs)
        IN  /\ Len(out) = TotalLines(inputs)
            /\ Len(flat) = TotalLines(inputs)
            /\ DOMAIN result.cells = 2..(1 + TotalLines(inputs))
            /\ \A pos \in 0..(Len(flat) - 1) :
                  /\ result.cells[2 + pos].C = (pos + 1) * 10
                  /\ result.cells[2 + pos].E = flat[pos + 1].description
                  /\ result.cells[2 + pos].A = flat[pos + 1].branch_code

\* a completed run of three inputs, the middle one without parsed lines, whose
\* rows change branch code
C6_Witness ==
    /\ pc = "done"
    /\ Len(inputs) = 3
    /\ LineCount(inputs[2].file) = 0
    /\ Len(out) >= 3
    /\ out[1].branch_code # out[Len(out)].branch_code

(***************************************************************************)
(* C7                                                                      *)
(***************************************************************************)
\* C7 as stated: for every PO date, the integer written to the PO-number cell,
\* displayed with zero decimal places, is the allocated digit string
\* yy+mmdd+digits+suffix, of the same length.
C7_CellPreservesPoNumber ==
    Writing =>
        \A j \in 1..i :
            /\ Format0(cells[1 + j].B) = po_by_branch[out[j].branch_code]
            /\ Len(Format0(cells[1 + j].B)) = Len(po_by_branch[out[j].branch_code])

(***************************************************************************)
(* C8                                                                      *)
(***************************************************************************)
\* the article the key table gives a description: column C of the last row
\* whose column B is the description, both cells present, both trimmed
KeyRows(desc) ==
    {r \in 1..Len(key_table) :
        /\ key_table[r].b.t # "none"
        /\ key_table[r].c.t # "none"
        /\ Strip(StrOf(key_table[r].b)) = desc}

ArticleOf(desc) ==
    IF KeyRows(desc) = {} THEN <<>>
    ELSE LET last == CHOOSE r \in KeyRows(desc) : \A q \in KeyRows(desc) : q <= r
         IN  Strip(StrOf(key_table[last].c))

\* C8: every parsed line of the inputs consumed so far has exactly one output
\* row; its article is the mapped value when the key table holds its
\* description and empty otherwise; the only error raised while the rows are
\* built is UnknownPlatform, for a platform tag outside SPX, LEX, TT.
C8_MissingKeyGivesEmptyArticle ==
    /\ pc # "start" =>
          LET flat == Flat(SubSeq(inputs, 1, k))
          IN  /\ Len(out) = Len(flat)
              /\ \A j \in 1..Len(out) :
                    /\ out[j].description = flat[j].description
                    /\ out[j].article = ArticleOf(out[j].description)
                    /\ KeyRows(out[j].description) = {} => out[j].article = <<>>
    /\ err.kind \in {"none", "UnknownPlatform", "InvalidBranchCode"}
    /\ (pc = "error" /\ style = <<>>) <=> err.kind = "UnknownPlatform"
    /\ err.kind = "UnknownPlatform" =>
          /\ k < Len(inputs)
          /\ err.arg = Strip(Upper(inputs[k + 1].platform))
          /\ err.arg \notin {P_SPX, P_LEX, P_TT}

\* rows are built for a description the key table lacks and for one it holds
C8_Witness ==
    /\ pc = "build"
    /\ \E j1, j2 \in 1..Len(out) :
          /\ KeyRows(out[j1].description) = {}
          /\ out[j1].article = <<>>
          /\ KeyRows(out[j2].description) # {}
          /\ out[j2].article # <<>>

(***************************************************************************)
(* C9                                                                      *)
(***************************************************************************)
\* C9: after a run on a non-empty row sequence, every output row has, in
\* columns 1..18, the formatting of row 2 of the sheet and its height, the last
\* row and column B included; that formatting is the loaded template's row 2
\* with number format "0" in column B.
C9_RowsStyledAsRowTwo ==
    (pc = "done" /\ Len(out) > 0) =>
        \A r \in 2..(1 + Len(out)) :
            /\ result.height[r] = result.height[2]
            /\ result.height[r] = template.height
            /\ \A c \in 1..18 :
                  /\ result.style[r][c] = result.style[2][c]
                  /\ result.style[r][c].font = template.cell[c].font
                  /\ result.style[r][c].fill = template.cell[c].fill
                  /\ result.style[r][c].border = template.cell[c].border
                  /\ result.style[r][c].alignment = template.cell[c].alignment
                  /\ result.style[r][c].number_format
                        = IF c = 2 THEN "0" ELSE template.cell[c].number_format

\* a completed run of several rows on a template whose column B has another
\* number format than "0"
C9_Witness ==
    /\ pc = "done"
    /\ Len(out) >= 3
    /\ template.cell[2].number_format # "0"

(***************************************************************************)
(* C10                                                                     *)
(***************************************************************************)
C10_Inv ==
    /\ (pc \in {"start", "build"} \/ (pc = "write" /\ i = 0)) =>
          po_by_branch = <<>> /\ count_by_num = <<>>
    /\ Writing =>
          /\ DOMAIN po_by_branch = Seen
          /\ DOMAIN count_by_num = {KeyOf(b) : b \in DOMAIN po_by_branch}
          /\ \A d \in DOMAIN count_by_num :
                count_by_num[d] = Cardinality({b \in DOMAIN po_by_branch : KeyOf(b) = d})

C10_Step ==
    pc = "write" =>
        /\ \A d \in DOMAIN count_by_num :
              /\ d \in DOMAIN count_by_num'
              /\ count_by_num'[d] # count_by_num[d] =>
                    /\ i' = i + 1
                    /\ d = KeyOf(out[i + 1].branch_code)
                    /\ count_by_num'[d] = count_by_num[d] + 1
        /\ pc' = "error" =>
              po_by_branch' = po_by_branch /\ count_by_num' = count_by_num

\* C10: both maps are empty when the loop starts; after any prefix of the rows
\* the counter of a digit key is the number of distinct memoized branch codes
\* with that key, and keys never seen have no counter; an allocation changes
\* the counter of its own digit key only, and a row that fails validation
\* changes neither map.
C10_CountersPerDigitKey == []C10_Inv /\ [][C10_Step]_vars

\* two branch codes counted under 93 and one under 95
C10_Witness ==
    /\ pc = "write"
    /\ DOMAIN count_by_num = {<<"9", "3">>, <<"9", "5">>}
    /\ count_by_num[<<"9", "3">>] = 2
    /\ count_by_num[<<"9", "5">>] = 1

====
